---- MODULE Spec2Model ----
(***************************************************************************)
(* Emoji Pair Finder (src/bot.py): the game sessions, user profiles and    *)
(* chat records kept in the document store, and the callback handlers that *)
(* read and write them.  The handlers are coroutines of one event loop:    *)
(* the store calls (pymongo) block, so a handler runs atomically from one  *)
(* await of the transport to the next, and handlers of different events    *)
(* interleave at those awaits only.                                        *)
(***************************************************************************)
EXTENDS Integers, Sequences, FiniteSets, TLC

(* ----------------------------- bounds ---------------------------------- *)
\* the clock runs over 0..MaxTime seconds
MaxTime == 1
\* End-game events are dispatched for a session until it has this many summaries
MaxFinalize == 2
\* generate_game_grid is applied to every rows, cols of 1..MaxSide for which
\* the pool has the pairs
MaxSide == 5

UserIds == {1, 2}
ChatIds == {1}
GameIds == {1}
\* a session id that no stored session has (a button outliving its session)
UnknownIds == {0}
\* coroutines of cb_game_actions that may be in flight together
Handlers == {1, 2}

(* --------------------------- constants --------------------------------- *)
COOLDOWN_SECONDS == 1
POINTS == 10
\* the filler emoji, distinct from every emoji of the pool
FILLER == 0
\* Python's None in the "filler" field
None == -1
\* the check mark the comment of line 131 says a revealed filler turns into
CHECK == 3
\* the pool (40 emojis in the code, of which only equality is ever used)
EMOJI_POOL == {1, 2}

\* answered: what the latest game callback was answered (callback.answer,
\* or the "not found" message); summaries: the summaries sent, per session
VARIABLES games, users, chats, now, handlers, summaries, answered

vars == <<games, users, chats, now, handlers, summaries, answered>>

(* --------------------------- documents --------------------------------- *)
\* a user never seen: find_one returns None, .get(field, 0) gives 0
NoUser == [exists |-> FALSE, games_played |-> 0, pairs_found |-> 0,
           total_points |-> 0, best_score |-> 0, cooldown_until |-> 0]

\* a chat never finalized in: the $inc with upsert=True starts from 0 (the
\* title, all that ensure_chat_record sets, is not modelled)
NoChat == [games_played |-> 0, total_activity |-> 0]

Idle == [pc |-> "idle"]

\* upsert_user_profile: update_one(..., upsert=True)
upsert_user_profile(us, u) == [us EXCEPT ![u].exists = TRUE]

(* ------------------------- grid generation ----------------------------- *)
\* a draw with replacement in place of random.sample
Samples_WithRepeats(k) == [1..k -> EMOJI_POOL]

\* random.sample(EMOJI_POOL, k): the sequences of k distinct emojis of the
\* pool (none when k exceeds the pool: ValueError)
Samples(k) ==
    {s \in [1..k -> EMOJI_POOL] : \A i, j \in 1..k : i /= j => s[i] /= s[j]}

\* random.shuffle: any permutation of the positions 0..n-1
Shuffles(n) ==
    {p \in [0..(n-1) -> 0..(n-1)] : \A i, j \in 0..(n-1) : i /= j => p[i] /= p[j]}

\* the deck before shuffling: every chosen emoji twice, then the filler if
\* the number of cells is odd (0-based, as the Python list)
Deck(emojis, total) ==
    [i \in 0..(total-1) |->
        IF i < 2 * Len(emojis) THEN emojis[(i \div 2) + 1] ELSE FILLER]

FillerOf(total) == IF total % 2 = 1 THEN FILLER ELSE None

\* the grids generate_game_grid(rows, cols) can return
generate_game_grid(rows, cols) ==
    LET total == rows * cols
        pair_count == total \div 2
    IN  {[i \in 0..(total-1) |->
            [emoji |-> Deck(emojis, total)[p[i]], matched |-> FALSE]] :
                emojis \in Samples(pair_count), p \in Shuffles(total)}

\* the sizes of the size buttons, lines 174-176: 5x5, 5x8 and 5x12 in the
\* code, one odd and two even grids, scaled down here
Sizes == {<<1, 3>>, <<1, 2>>, <<1, 4>>}

\* every rows, cols >= 1 (up to MaxSide) that random.sample accepts: the
\* pair count does not exceed the pool
GridSizes ==
    {rc \in (1..MaxSide) \X (1..MaxSide) :
        (rc[1] * rc[2]) \div 2 <= Cardinality(EMOJI_POOL)}

(* ------------------------------ Init ----------------------------------- *)
Init ==
    /\ games = << >>
    /\ users = [u \in UserIds |-> NoUser]
    /\ chats = [c \in ChatIds |-> NoChat]
    /\ now = 0
    /\ handlers = [h \in Handlers |-> Idle]
    /\ summaries = [g \in GameIds |-> << >>]
    /\ answered = "none"

(* ------------------------- the match resolver --------------------------- *)
\* the gate with the comparison off by one: a click at cooldown_until is
\* rejected too
RateLimited_Inclusive(t, user_doc) == t <= user_doc.cooldown_until

\* a gate that lets every click through
RateLimited_Off(t, user_doc) == FALSE

\* line 244: the cooldown gate rejects
RateLimited(t, user_doc) == t < user_doc.cooldown_until

\* line 249: update_one(..., {"$set": {"cooldown_until": now + COOLDOWN_SECONDS}}, upsert=True)
ArmCooldown(us, u, t) ==
    [us EXCEPT ![u].exists = TRUE, ![u].cooldown_until = t + COOLDOWN_SECONDS]

\* line 261
InvalidCell(index, total) == index < 0 \/ index >= total

\* the check of line 265 left out
IsMatched_Never(grid, index) == FALSE

\* line 265
IsMatched(grid, index) == grid[index].matched

\* the check of line 272 left out
IsRevealed_Never(revealed, index) == FALSE

\* line 272
IsRevealed(revealed, index) == \E k \in 1..Len(revealed) : revealed[k] = index

\* the pair credited to every player of the session, not to the acting one
\* alone
IncPlayer_All(players, u, pairs, points) ==
    [v \in DOMAIN players \cup {u} |->
        IF v \in DOMAIN players
        THEN [pairs_found |-> players[v].pairs_found + pairs,
              score |-> players[v].score + points]
        ELSE [pairs_found |-> pairs, score |-> points]]

\* "$inc" on players.<key>.pairs_found and players.<key>.score: the key is
\* created when the user is not in players yet
IncPlayer(players, u, pairs, points) ==
    IF u \in DOMAIN players
    THEN [players EXCEPT ![u] = [pairs_found |-> @.pairs_found + pairs,
                                 score |-> @.score + points]]
    ELSE players @@ (u :> [pairs_found |-> pairs, score |-> points])

\* the update of line 300 left out
CreditUser_Skip(us, u, pairs, points) == us

\* line 300: update_one without upsert changes an existing profile only
CreditUser(us, u, pairs, points) ==
    IF us[u].exists
    THEN [us EXCEPT ![u].pairs_found = @ + pairs, ![u].total_points = @ + points]
    ELSE us

\* a correct pair with the first of its two cells left unmarked
ResolveMatch_OneCell(doc, i1, i2, u) ==
    [doc EXCEPT !.grid = [@ EXCEPT ![i2].matched = TRUE],
                !.pairs_found = @ + 1,
                !.score = @ + POINTS,
                !.players = IncPlayer(@, u, 1, POINTS),
                !.revealed = << >>]

\* lines 288-303: a correct pair
ResolveMatch(doc, i1, i2, u) ==
    [doc EXCEPT !.grid = [@ EXCEPT ![i1].matched = TRUE, ![i2].matched = TRUE],
                !.pairs_found = @ + 1,
                !.score = @ + POINTS,
                !.players = IncPlayer(@, u, 1, POINTS),
                !.revealed = << >>]

\* the filler branch marking both revealed cells
ResolveFiller_Both(doc, i1, i2) ==
    [doc EXCEPT !.grid = [@ EXCEPT ![i1].matched = TRUE, ![i2].matched = TRUE],
                !.revealed = << >>]

\* the filler branch writing the grid without resetting revealed
ResolveFiller_Keep(doc, i1, i2) ==
    [doc EXCEPT !.grid = [i \in DOMAIN @ |->
                            IF (i = i1 \/ i = i2) /\ @[i].emoji = doc.filler
                            THEN [@[i] EXCEPT !.matched = TRUE] ELSE @[i]]]

\* the filler branch turning the filler into a check mark as it matches it
ResolveFiller_Check(doc, i1, i2) ==
    [doc EXCEPT !.grid = [i \in DOMAIN @ |->
                            IF (i = i1 \/ i = i2) /\ @[i].emoji = doc.filler
                            THEN [emoji |-> CHECK, matched |-> TRUE] ELSE @[i]],
                !.revealed = << >>]

\* lines 305-312: the filler is one of the two
ResolveFiller(doc, i1, i2) ==
    [doc EXCEPT !.grid = [i \in DOMAIN @ |->
                            IF (i = i1 \/ i = i2) /\ @[i].emoji = doc.filler
                            THEN [@[i] EXCEPT !.matched = TRUE] ELSE @[i]],
                !.revealed = << >>]

\* the wrong-pair branch without its reset of revealed
ResolveMismatch_Keep(doc) == doc

\* lines 314-316: a wrong pair
ResolveMismatch(doc) == [doc EXCEPT !.revealed = << >>]

\* lines 258-317, up to the await that follows the writes: the session as
\* stored afterwards, the profiles afterwards, and what is answered
handle_pick(game_doc, us, u, index) ==
    LET grid == game_doc.grid
        total == game_doc.rows * game_doc.cols
        revealed == Append(game_doc.revealed, index)
        shown == [game_doc EXCEPT !.revealed = revealed]
        i1 == revealed[1]
        i2 == revealed[2]
        filler == game_doc.filler
    IN  IF InvalidCell(index, total)
        THEN [doc |-> game_doc, users |-> us, outcome |-> "InvalidPosition"]
        ELSE IF IsMatched(grid, index)
        THEN [doc |-> game_doc, users |-> us, outcome |-> "AlreadyMatched"]
        ELSE IF IsRevealed(game_doc.revealed, index)
        THEN [doc |-> game_doc, users |-> us, outcome |-> "AlreadyRevealed"]
        ELSE IF Len(revealed) /= 2
        THEN [doc |-> shown, users |-> us, outcome |-> "Revealed"]
        ELSE IF grid[i1].emoji = grid[i2].emoji
        THEN [doc |-> ResolveMatch(shown, i1, i2, u),
              users |-> CreditUser(us, u, 1, POINTS), outcome |-> "Match"]
        ELSE IF filler /= None /\ (grid[i1].emoji = filler \/ grid[i2].emoji = filler)
        THEN [doc |-> ResolveFiller(shown, i1, i2), users |-> us, outcome |-> "Filler"]
        ELSE [doc |-> ResolveMismatch(shown), users |-> us, outcome |-> "Mismatch"]

\* the outcomes after which handle_pick goes on (lines 318-331) once its
\* answer has been sent
Resolved == {"Match", "Filler", "Mismatch"}

\* line 321
all_matched(game_doc) == \A i \in DOMAIN game_doc.grid : game_doc.grid[i].matched

(* --------------------------- finalization ------------------------------ *)
\* lines 340-347: update_one without upsert changes an existing profile only
FinalizeUsers(us, players) ==
    [u \in UserIds |->
        IF u \in DOMAIN players /\ us[u].exists
        THEN [us[u] EXCEPT
                !.games_played = @ + 1,
                !.best_score = IF players[u].score /= 0 /\ players[u].score > @
                               THEN players[u].score ELSE @]
        ELSE us[u]]

\* line 349
FinalizeChat(cs, chat_id) ==
    [cs EXCEPT ![chat_id].games_played = @ + 1, ![chat_id].total_activity = @ + 1]

\* the update of line 351 left out
MarkFinished_Skip(gs, gid) == gs

\* line 351 (finished_at is not modelled)
MarkFinished(gs, gid) == [gs EXCEPT ![gid].is_finished = TRUE]

\* lines 353-359: the summary names every player of game_doc with the score
\* and pairs game_doc holds
Summary(game_doc) == game_doc.players

\* finalize_game(chat_id, game_doc), lines 336-359
finalize_game(chat_id, game_doc) ==
    /\ users' = FinalizeUsers(users, game_doc.players)
    /\ chats' = FinalizeChat(chats, chat_id)
    /\ games' = MarkFinished(games, game_doc.game_id)
    /\ summaries' = [summaries EXCEPT ![game_doc.game_id] = Append(@, Summary(game_doc))]

(* ----------------------------- actions --------------------------------- *)
\* /start
cmd_start(u) ==
    /\ ~users[u].exists
    /\ users' = upsert_user_profile(users, u)
    /\ UNCHANGED <<games, chats, now, handlers, summaries, answered>>

\* the rank with the comparison of line 378 made inclusive
rankOf_AtLeast(us, u) ==
    1 + Cardinality({v \in UserIds :
                        us[v].exists /\ us[v].total_points >= us[u].total_points})

\* the rank as a place in a list sorted by points, ties in order of user id
rankOf_TieById(us, u) ==
    1 + Cardinality({v \in UserIds :
                        /\ us[v].exists
                        /\ \/ us[v].total_points > us[u].total_points
                           \/ us[v].total_points = us[u].total_points /\ v < u})

\* line 378: count_documents({"total_points": {"$gt": ...}}) + 1, over the
\* profile documents there are
rankOf(us, u) ==
    1 + Cardinality({v \in UserIds :
                        us[v].exists /\ us[v].total_points > us[u].total_points})

\* line 379: the last line of the profile text
ProfileReply(rank) == "Global rank: #" \o ToString(rank)

\* /profile, lines 368-380
cmd_profile(u) ==
    /\ users' = upsert_user_profile(users, u)
    /\ answered' = ProfileReply(rankOf(users', u))
    /\ UNCHANGED <<games, chats, now, handlers, summaries>>

\* a size button: a session is generated and stored (a second click on a
\* button of the same id stores a document that find_one never returns)
cb_size_select(gid, u, c, rows, cols) ==
    /\ gid \notin DOMAIN games
    /\ \E grid \in generate_game_grid(rows, cols) :
         games' = games @@ (gid :>
            [game_id |-> gid, owner_id |-> u, chat_id |-> c,
             rows |-> rows, cols |-> cols, grid |-> grid,
             revealed |-> << >>, score |-> 0, pairs_found |-> 0,
             filler |-> FillerOf(rows * cols),
             players |-> (u :> [pairs_found |-> 0, score |-> 0]),
             is_finished |-> FALSE])
    /\ UNCHANGED <<users, chats, now, handlers, summaries, answered>>

\* time.time() is non-decreasing
Tick ==
    /\ now < MaxTime
    /\ now' = now + 1
    /\ UNCHANGED <<games, users, chats, handlers, summaries, answered>>

\* h can take a new event: a coroutine is created per event, and which of
\* the free places it takes makes no difference, so it takes the first
Free(h) == handlers[h] = Idle /\ \A k \in Handlers : k < h => handlers[k] /= Idle

\* the actions a game button carries
Actions == {"pick", "end"}

\* the positions a pick on session gid may carry: its cells and one to
\* each side
Indexes(gid) ==
    IF gid \in DOMAIN games THEN -1..(games[gid].rows * games[gid].cols) ELSE {}

\* the lookup of line 236 moved after the cooldown gate
GameNotFound_AfterGate(h, u, gid, action) ==
    /\ Free(h)
    /\ gid \notin DOMAIN games
    /\ ~RateLimited(now, users[u])
    /\ users' = ArmCooldown(users, u, now)
    /\ answered' = "NotFound"
    /\ UNCHANGED <<games, chats, now, handlers, summaries>>

\* cb_game_actions, lines 232-239: no such session
GameNotFound(h, u, gid, action) ==
    /\ Free(h)
    /\ gid \notin DOMAIN games
    /\ answered' = "NotFound"
    /\ UNCHANGED <<games, users, chats, now, handlers, summaries>>

\* cb_game_actions, lines 241-247: the click is ignored
TooFast(h, u, gid, action) ==
    /\ Free(h)
    /\ gid \in DOMAIN games
    /\ RateLimited(now, users[u])
    /\ answered' = "RateLimited"
    /\ UNCHANGED <<games, users, chats, now, handlers, summaries>>

\* cb_game_actions with action "pick", lines 232-252, and handle_pick up to
\* the await after its writes
Pick(h, u, gid, index) ==
    /\ Free(h)
    /\ gid \in DOMAIN games
    /\ ~RateLimited(now, users[u])
    /\ LET r == handle_pick(games[gid], ArmCooldown(users, u, now), u, index)
       IN  /\ games' = [games EXCEPT ![gid] = r.doc]
           /\ users' = r.users
           /\ handlers' = [handlers EXCEPT ![h] =
                             IF r.outcome \in Resolved
                             THEN [pc |-> "resolved", game_id |-> gid]
                             ELSE Idle]
           /\ answered' = r.outcome
    /\ UNCHANGED <<chats, now, summaries>>

\* a pick button of session gid, whichever cell it names
Reveal(h, u, gid) == \E index \in Indexes(gid) : Pick(h, u, gid, index)

\* handle_pick after the answer, lines 318-331: the session is read again
\* and finalized if every cell is matched
PickResume(h) ==
    /\ handlers[h].pc = "resolved"
    /\ LET game_doc == games[handlers[h].game_id]
       IN  IF all_matched(game_doc)
           THEN finalize_game(game_doc.chat_id, game_doc)
           ELSE UNCHANGED <<games, users, chats, summaries>>
    /\ handlers' = [handlers EXCEPT ![h] = Idle]
    /\ UNCHANGED <<now, answered>>

\* cb_game_actions with action "end", lines 232-254, and handle_end_game up
\* to its await (line 363): the session read at line 236 is kept
End(h, u, gid) ==
    /\ Free(h)
    /\ gid \in DOMAIN games
    /\ Len(summaries[gid]) < MaxFinalize
    /\ ~RateLimited(now, users[u])
    /\ users' = ArmCooldown(users, u, now)
    /\ handlers' = [handlers EXCEPT ![h] = [pc |-> "ending", game_doc |-> games[gid]]]
    /\ answered' = "Ending"
    /\ UNCHANGED <<games, chats, now, summaries>>

\* handle_end_game after the answer, line 364: finalize_game with the
\* session as read at line 236
EndResume(h) ==
    /\ handlers[h].pc = "ending"
    /\ LET game_doc == handlers[h].game_doc
       IN  finalize_game(game_doc.chat_id, game_doc)
    /\ handlers' = [handlers EXCEPT ![h] = Idle]
    /\ UNCHANGED <<now, answered>>

\* the events dispatched to the handlers of H
NextOf(H) ==
    \/ \E u \in UserIds : cmd_start(u)
    \/ \E gid \in GameIds, u \in UserIds, c \in ChatIds, rc \in Sizes :
          cb_size_select(gid, u, c, rc[1], rc[2])
    \/ Tick
    \/ \E h \in H, u \in UserIds, gid \in GameIds, action \in Actions :
          GameNotFound(h, u, gid, action)
    \/ \E h \in H, u \in UserIds, gid \in GameIds, action \in Actions :
          TooFast(h, u, gid, action)
    \/ \E h \in H, u \in UserIds, gid \in GameIds : Reveal(h, u, gid)
    \/ \E h \in H : PickResume(h)
    \/ \E h \in H, u \in UserIds, gid \in GameIds : End(h, u, gid)
    \/ \E h \in H : EndResume(h)

Next == NextOf(Handlers)

Spec == Init /\ [][Next]_vars

\* the events handled one at a time
NextSeq == NextOf({1})

SpecSeq == Init /\ [][NextSeq]_vars

\* the events handled one at a time, the clicks on buttons that name no
\* stored session among them
NextStale ==
    \/ NextSeq
    \/ \E u \in UserIds, gid \in UnknownIds, action \in Actions :
          GameNotFound(1, u, gid, action)

SpecStale == Init /\ [][NextStale]_vars

\* the events handled one at a time, /profile among them; every event
\* received is handled in the end
NextProfile ==
    \/ NextSeq
    \/ \E u \in UserIds : cmd_profile(u)

SpecProfile == Init /\ [][NextProfile]_vars /\ WF_vars(NextProfile)

\* two sessions side by side, on the smallest grid: the cooldown is kept per
\* user, so a user's clicks in either session meet the same gate
GateGames == {1, 2}

InitGate ==
    /\ games = << >>
    /\ users = [u \in UserIds |-> NoUser]
    /\ chats = [c \in ChatIds |-> NoChat]
    /\ now = 0
    /\ handlers = [h \in Handlers |-> Idle]
    /\ summaries = [g \in GateGames |-> << >>]
    /\ answered = "none"

\* the user whose clicks are followed (any one user: the gate reads and
\* writes the clicking user's profile only)
GateUsers == {1}

\* the game events of the sessions of GateGames that come from the users of
\* GateUsers, dispatched to the handlers of Handlers
NextGate ==
    \/ \E gid \in GateGames, u \in UserIds, c \in ChatIds :
          cb_size_select(gid, u, c, 1, 2)
    \/ Tick
    \/ \E h \in Handlers, u \in GateUsers, gid \in GateGames, action \in Actions :
          TooFast(h, u, gid, action)
    \/ \E h \in Handlers, u \in GateUsers, gid \in GateGames : Reveal(h, u, gid)
    \/ \E h \in Handlers : PickResume(h)
    \/ \E h \in Handlers, u \in GateUsers, gid \in GateGames : End(h, u, gid)
    \/ \E h \in Handlers : EndResume(h)

SpecGate == InitGate /\ [][NextGate]_vars

\* generate_game_grid applied to every size of GridSizes, its result stored
\* as cb_size_select stores it
NextGrid ==
    \E gid \in GameIds, u \in UserIds, c \in ChatIds, rc \in GridSizes :
        cb_size_select(gid, u, c, rc[1], rc[2])

SpecGrid == Init /\ [][NextGrid]_vars

(* ------------------------------ claims --------------------------------- *)
\* no handler is between two of its steps
AtRest == \A h \in Handlers : handlers[h] = Idle

\* the session-side fields a reveal may change
SessionSame(gid) ==
    /\ games'[gid].grid = games[gid].grid
    /\ games'[gid].revealed = games[gid].revealed
    /\ games'[gid].score = games[gid].score
    /\ games'[gid].pairs_found = games[gid].pairs_found
    /\ games'[gid].players = games[gid].players

\* no lifetime or per-session counter of points or pairs changes
CountersSame(gid) ==
    /\ games'[gid].score = games[gid].score
    /\ games'[gid].pairs_found = games[gid].pairs_found
    /\ games'[gid].players = games[gid].players
    /\ \A v \in UserIds :
         /\ users'[v].pairs_found = users[v].pairs_found
         /\ users'[v].total_points = users[v].total_points

\* C1: once a session is finished, every later reveal leaves its grid,
\* revealed, score, pairs_found and players unchanged and changes no user's
\* lifetime pairs_found or total_points.
C1_NoRevealAfterFinished ==
    [][\A h \in Handlers, u \in UserIds, gid \in DOMAIN games :
          \A index \in Indexes(gid) :
             (games[gid].is_finished /\ Pick(h, u, gid, index))
                => (SessionSame(gid) /\ CountersSame(gid))]_vars

\* C2: a session is finalized at most once: it never has a second summary,
\* and its chat never counts more games than it has sessions.
C2_FinalizedAtMostOnce ==
    /\ \A gid \in GameIds : Len(summaries[gid]) <= 1
    /\ \A c \in ChatIds :
          chats[c].games_played
             <= Cardinality({gid \in DOMAIN games : games[gid].chat_id = c})

\* C3: at rest (no handler between two steps) the revealed list of every
\* session holds at most 2 positions.
C3_RevealedAtMostTwoAtRest ==
    AtRest => \A gid \in DOMAIN games : Len(games[gid].revealed) <= 2

\* a session at rest with one cell revealed after a pair was resolved
C3_Witness ==
    /\ AtRest
    /\ answered = "Revealed"
    /\ \E gid \in DOMAIN games :
          /\ Len(games[gid].revealed) = 1
          /\ games[gid].score = POINTS

\* C4: with reveals of one session handled concurrently, revealed never
\* holds more than two positions and the score never exceeds 10 times the
\* number of pairs of the grid.
C4_ConcurrentReveals ==
    \A gid \in DOMAIN games :
       /\ Len(games[gid].revealed) <= 2
       /\ games[gid].score <= 10 * ((games[gid].rows * games[gid].cols) \div 2)
       /\ games[gid].pairs_found <= (games[gid].rows * games[gid].cols) \div 2

\* two reveals of one session, each having matched a pair, are in flight
\* together
C4_Witness ==
    \E gid \in DOMAIN games :
       /\ \A h \in Handlers :
            handlers[h] = [pc |-> "resolved", game_id |-> gid]
       /\ games[gid].score = 20
\* index is a second reveal on session gid: a cell of the grid, not
\* matched, not the one revealed, while exactly one cell is revealed
SecondReveal(gid, index) ==
    /\ index >= 0
    /\ index < games[gid].rows * games[gid].cols
    /\ ~games[gid].grid[index].matched
    /\ Len(games[gid].revealed) = 1
    /\ games[gid].revealed[1] /= index

\* the emoji of cell i of session gid
EmojiAt(gid, i) == games[gid].grid[i].emoji

\* the per-session score and pairs of user u (0 when u is not in players)
PlayerScore(players, u) == IF u \in DOMAIN players THEN players[u].score ELSE 0

PlayerPairs(players, u) == IF u \in DOMAIN players THEN players[u].pairs_found ELSE 0

\* C5: a second reveal on two cells of the same emoji adds exactly 10 to
\* the session score and 1 to its pairs_found, adds the same to the acting
\* user's per-session and lifetime counters, marks both cells matched and
\* empties revealed.
C5_MatchScores ==
    [][\A h \in Handlers, u \in UserIds, gid \in DOMAIN games :
          \A index \in Indexes(gid) :
             (/\ SecondReveal(gid, index)
              /\ EmojiAt(gid, games[gid].revealed[1]) = EmojiAt(gid, index)
              /\ Pick(h, u, gid, index))
                => (/\ games'[gid].score = games[gid].score + 10
                    /\ games'[gid].pairs_found = games[gid].pairs_found + 1
                    /\ PlayerScore(games'[gid].players, u)
                          = PlayerScore(games[gid].players, u) + 10
                    /\ PlayerPairs(games'[gid].players, u)
                          = PlayerPairs(games[gid].players, u) + 1
                    /\ users'[u].total_points = users[u].total_points + 10
                    /\ users'[u].pairs_found = users[u].pairs_found + 1
                    /\ games'[gid].grid[index].matched
                    /\ games'[gid].grid[games[gid].revealed[1]].matched
                    /\ games'[gid].revealed = << >>)]_vars

\* a match has just been answered, by a user who had points already
C5_Witness ==
    /\ answered = "Match"
    /\ \E h \in Handlers : handlers[h].pc = "resolved"
    /\ \E gid \in DOMAIN games : games[gid].score = 20
    /\ \E u \in UserIds : users[u].total_points = 20

\* C6: a second reveal on two cells of different emojis, neither the
\* filler, leaves every cell as it was, empties revealed and changes no
\* score or pairs counter of the session, of a player or of a user.
C6_MismatchFrame ==
    [][\A h \in Handlers, u \in UserIds, gid \in DOMAIN games :
          \A index \in Indexes(gid) :
             (/\ SecondReveal(gid, index)
              /\ EmojiAt(gid, games[gid].revealed[1]) /= EmojiAt(gid, index)
              /\ EmojiAt(gid, games[gid].revealed[1]) /= FILLER
              /\ EmojiAt(gid, index) /= FILLER
              /\ Pick(h, u, gid, index))
                => (/\ games'[gid].grid = games[gid].grid
                    /\ ~games'[gid].grid[index].matched
                    /\ ~games'[gid].grid[games[gid].revealed[1]].matched
                    /\ games'[gid].revealed = << >>
                    /\ CountersSame(gid)
                    /\ \A v \in UserIds :
                          users'[v].best_score = users[v].best_score)]_vars

\* a mismatch has just been answered
C6_Witness ==
    /\ answered = "Mismatch"
    /\ \E h \in Handlers : handlers[h].pc = "resolved"
    /\ \E gid \in DOMAIN games :
          /\ games[gid].revealed = << >>
          /\ \A i \in DOMAIN games[gid].grid : ~games[gid].grid[i].matched

\* C7: a second reveal in which exactly one of the two cells is the filler
\* changes no score or pairs counter, marks the filler cell matched, leaves
\* every other cell as it was and empties revealed.
C7_FillerAutoMatch ==
    [][\A h \in Handlers, u \in UserIds, gid \in DOMAIN games :
          \A index \in Indexes(gid) :
             (/\ SecondReveal(gid, index)
              /\ (EmojiAt(gid, games[gid].revealed[1]) = FILLER)
                    /= (EmojiAt(gid, index) = FILLER)
              /\ Pick(h, u, gid, index))
                => (/\ CountersSame(gid)
                    /\ \A i \in DOMAIN games[gid].grid :
                          games'[gid].grid[i] =
                             IF EmojiAt(gid, i) = FILLER
                             THEN [emoji |-> FILLER, matched |-> TRUE]
                             ELSE games[gid].grid[i]
                    /\ games'[gid].revealed = << >>)]_vars

\* the filler has just been auto-matched, next to a cell left unmatched
C7_Witness ==
    /\ answered = "Filler"
    /\ \E h \in Handlers : handlers[h].pc = "resolved"
    /\ \E gid \in DOMAIN games :
          /\ games[gid].score = 0
          /\ \A i \in DOMAIN games[gid].grid :
                games[gid].grid[i].matched <=> (games[gid].grid[i].emoji = FILLER)

\* C8: a session whose cells are all matched is finished and has a summary,
\* unless the reveal that resolved a pair of it is still in progress; that
\* reveal finalizes the session before it completes.
C8_CompletionFinalizes ==
    \A gid \in DOMAIN games :
       (/\ \A i \in DOMAIN games[gid].grid : games[gid].grid[i].matched
        /\ \A h \in Handlers : handlers[h] /= [pc |-> "resolved", game_id |-> gid])
          => (games[gid].is_finished /\ Len(summaries[gid]) >= 1)

\* a session completed by play, at rest: finished by its last reveal alone
C8_Witness ==
    /\ AtRest
    /\ answered = "Match"
    /\ \E gid \in DOMAIN games :
          /\ \A i \in DOMAIN games[gid].grid : games[gid].grid[i].matched
          /\ games[gid].is_finished
          /\ Len(summaries[gid]) = 1

\* index is a reveal on session gid that fails: outside the grid, on a
\* matched cell, or on the cell already revealed
FailingReveal(gid, index) ==
    \/ index < 0
    \/ index >= games[gid].rows * games[gid].cols
    \/ games[gid].grid[index].matched
    \/ \E k \in 1..Len(games[gid].revealed) : games[gid].revealed[k] = index

\* C9 as stated: a failing reveal changes no persistent state at all.
C9_FailingRevealNoOp ==
    [][\A h \in Handlers, u \in UserIds, gid \in DOMAIN games :
          \A index \in Indexes(gid) :
             (FailingReveal(gid, index) /\ Pick(h, u, gid, index))
                => UNCHANGED <<games, users, chats, summaries>>]_vars

\* C9 amended: a failing reveal that passed the cooldown gate changes
\* nothing but the acting user's cooldown_until (and creates that user's
\* profile if there was none).
C9_FailingRevealOnlyArms ==
    [][\A h \in Handlers, u \in UserIds, gid \in DOMAIN games :
          \A index \in Indexes(gid) :
             (FailingReveal(gid, index) /\ Pick(h, u, gid, index))
                => (/\ UNCHANGED <<games, chats, summaries>>
                    /\ \A v \in UserIds \ {u} : users'[v] = users[v]
                    /\ users'[u] = [users[u] EXCEPT !.exists = TRUE,
                                                    !.cooldown_until = now + 1])]_vars

\* a reveal has just failed on a session with a cell revealed and a pair
\* matched
C9_Witness ==
    /\ answered \in {"InvalidPosition", "AlreadyMatched", "AlreadyRevealed"}
    /\ \E gid \in DOMAIN games :
          /\ Len(games[gid].revealed) = 1
          /\ games[gid].score = POINTS

\* user u clicks a button of session gid, whatever comes of it
Attempt(h, u, gid) ==
    \/ \E action \in Actions : TooFast(h, u, gid, action)
    \/ Reveal(h, u, gid)
    \/ End(h, u, gid)

\* C10: an attempt before the user's cooldown_until is rejected and changes
\* nothing; an attempt at or after it passes and sets the user's
\* cooldown_until to one second after the attempt.
C10_CooldownGate ==
    [][\A h \in Handlers, u \in UserIds, gid \in DOMAIN games :
          Attempt(h, u, gid)
             => IF now < users[u].cooldown_until
                THEN /\ answered' = "RateLimited"
                     /\ UNCHANGED <<games, users, chats, summaries, handlers>>
                ELSE /\ answered' /= "RateLimited"
                     /\ users'[u].cooldown_until = now + 1]_vars

\* an attempt has been rejected after one passed at time 1, the time the
\* cooldown of the first second ran out
C10_Witness ==
    /\ answered = "RateLimited"
    /\ now = 1
    /\ \A u \in UserIds : users[u].cooldown_until = 2

\* user u clicks a pick or end button naming session id gid
Click(h, u, gid) ==
    \/ \E action \in Actions : GameNotFound(h, u, gid, action)
    \/ \E action \in Actions : TooFast(h, u, gid, action)
    \/ gid \in DOMAIN games /\ Reveal(h, u, gid)
    \/ gid \in DOMAIN games /\ End(h, u, gid)

\* C11: a reveal or end naming a session id that is not in the store is
\* answered "not found" and changes nothing: no session, no profile field
\* (cooldown_until included), no chat record, no summary.
C11_NotFoundNoEffect ==
    [][\A h \in Handlers, u \in UserIds, gid \in GameIds \cup UnknownIds :
          (gid \notin DOMAIN games /\ Click(h, u, gid))
             => (/\ answered' = "NotFound"
                 /\ UNCHANGED <<games, users, chats, summaries, handlers>>)]_vars

\* "not found" has just been answered while a session is in play and a
\* user who could pass the cooldown gate has a profile
C11_Witness ==
    /\ answered = "NotFound"
    /\ \E gid \in DOMAIN games : Len(games[gid].revealed) = 1
    /\ \E u \in UserIds : users[u].exists /\ users[u].cooldown_until <= now

\* handler h finalizes session gid in this step: a resolved pick that finds
\* every cell matched, or an End resuming after its answer
Finalizes(h, gid) ==
    \/ /\ handlers[h].pc = "resolved"
       /\ handlers[h].game_id = gid
       /\ all_matched(games[gid])
       /\ PickResume(h)
    \/ /\ handlers[h].pc = "ending"
       /\ handlers[h].game_doc.game_id = gid
       /\ EndResume(h)

\* the players finalize_game of handler h is given
FinalizedPlayers(h) ==
    IF handlers[h].pc = "ending"
    THEN handlers[h].game_doc.players
    ELSE games[handlers[h].game_id].players

\* C12: finalizing a session adds exactly 1 to the lifetime games_played of
\* every participant listed in its players (the creator included, whatever
\* the creator has done before), adds exactly 1 to the chat's games_played
\* and total_activity, and sets is_finished.
C12_FinalizeCountsEveryPlayer ==
    [][\A h \in Handlers, gid \in DOMAIN games :
          Finalizes(h, gid)
             => (/\ \A u \in DOMAIN FinalizedPlayers(h) :
                       users'[u].games_played = users[u].games_played + 1
                 /\ chats'[games[gid].chat_id].games_played
                       = chats[games[gid].chat_id].games_played + 1
                 /\ chats'[games[gid].chat_id].total_activity
                       = chats[games[gid].chat_id].total_activity + 1
                 /\ games'[gid].is_finished)]_vars

Max(a, b) == IF a >= b THEN a ELSE b

\* C13: best_score is a monotonic max: a finalization of a session leaves
\* each participant's best_score at the maximum of its previous value and
\* the participant's score in that session, and no step ever lowers any
\* user's best_score.
C13_BestScoreIsMax ==
    [][/\ \A u \in UserIds : users'[u].best_score >= users[u].best_score
       /\ \A h \in Handlers, gid \in DOMAIN games :
             Finalizes(h, gid)
                => \A u \in DOMAIN games[gid].players :
                      users'[u].best_score
                         = Max(users[u].best_score, games[gid].players[u].score)]_vars

\* the part of C13 that no interleaving breaks: best_score never decreases
BestScoreNeverDecreases ==
    [][\A u \in UserIds : users'[u].best_score >= users[u].best_score]_vars

\* the cells of grid that hold emoji e
CellsOf(grid, e) == {i \in DOMAIN grid : grid[i].emoji = e}

\* C14: for rows, cols >= 1 whose pair count does not exceed the pool, the
\* generated grid has exactly rows*cols cells, all unmatched; every emoji
\* other than the filler is of the pool and appears exactly twice; the
\* filler, which is no emoji of the pool, appears exactly once when
\* rows*cols is odd and not at all when it is even; the returned filler is
\* None exactly when rows*cols is even.
C14_GridWellFormed ==
    \A gid \in DOMAIN games :
       LET g == games[gid]
           total == g.rows * g.cols
       IN  /\ DOMAIN g.grid = 0..(total - 1)
           /\ Cardinality(DOMAIN g.grid) = total
           /\ \A i \in DOMAIN g.grid : ~g.grid[i].matched
           /\ \A i \in DOMAIN g.grid : g.grid[i].emoji \in EMOJI_POOL \cup {FILLER}
           /\ \A e \in EMOJI_POOL : Cardinality(CellsOf(g.grid, e)) \in {0, 2}
           /\ FILLER \notin EMOJI_POOL
           /\ Cardinality(CellsOf(g.grid, FILLER)) = (IF total % 2 = 1 THEN 1 ELSE 0)
           /\ (g.filler = None) <=> (total % 2 = 0)

\* a 5-cell grid: two pairs and the filler
C14_Witness ==
    \E gid \in DOMAIN games :
       /\ games[gid].rows * games[gid].cols = 5
       /\ games[gid].filler = FILLER
       /\ Cardinality(CellsOf(games[gid].grid, FILLER)) = 1
       /\ \A e \in EMOJI_POOL : Cardinality(CellsOf(games[gid].grid, e)) = 2

\* C15: in every behaviour, whatever the interleaving of reveals and ends, a
\* cell that is matched stays matched in every later state, and no cell's
\* emoji ever differs from the one generate_game_grid placed.
C15_MatchedOneWayEmojiFixed ==
    [][\A gid \in DOMAIN games :
          /\ gid \in DOMAIN games'
          /\ DOMAIN games'[gid].grid = DOMAIN games[gid].grid
          /\ \A i \in DOMAIN games[gid].grid :
                /\ games'[gid].grid[i].emoji = games[gid].grid[i].emoji
                /\ games[gid].grid[i].matched => games'[gid].grid[i].matched]_vars

\* a finished session that was played on: a matched pair, and a second End
\* in flight holding the session as it was before the match
C15_Witness ==
    \E gid \in DOMAIN games, h \in Handlers :
       /\ games[gid].is_finished
       /\ \E i \in DOMAIN games[gid].grid :
             games[gid].grid[i].matched /\ games[gid].grid[i].emoji /= FILLER
       /\ handlers[h].pc = "ending"
       /\ \E i \in DOMAIN games[gid].grid : ~handlers[h].game_doc.grid[i].matched

\* C16: an End finalizes with the players' scores stored when the
\* finalization runs: its summary lists, and its best_score update uses,
\* each participant's session score as stored at that moment, also when
\* another user's match was resolved between the End's read of the session
\* and its finalization.
C16_EndUsesCurrentScores ==
    [][\A h \in Handlers :
          (handlers[h].pc = "ending" /\ EndResume(h))
             => LET gid == handlers[h].game_doc.game_id
                    players == games[gid].players
                IN  /\ summaries'[gid] = Append(summaries[gid], players)
                    /\ \A u \in DOMAIN players :
                          users[u].exists =>
                             users'[u].best_score
                                = Max(users[u].best_score, players[u].score)]_vars

\* the users other than u with strictly more total_points than u
Ahead(u) == {v \in UserIds \ {u} : users[v].total_points > users[u].total_points}

\* C17: the rank /profile reports to a user is 1 plus the number of users
\* whose total_points is strictly greater than that user's; in particular
\* the only user with points, among users with none, is told rank 1.
C17_RankCountsStrictlyGreater ==
    [][\A u \in UserIds :
          cmd_profile(u)
             => /\ answered' = ProfileReply(1 + Cardinality(Ahead(u)))
                /\ (/\ users[u].total_points > 0
                    /\ \A v \in UserIds \ {u} : users[v].total_points = 0)
                      => answered' = "Global rank: #1"]_vars

\* the only user with points has been told rank 1
C17_Witness ==
    /\ answered = "Global rank: #1"
    /\ \E u \in UserIds :
          /\ users[u].total_points > 0
          /\ \A v \in UserIds \ {u} : users[v].exists /\ users[v].total_points = 0

\* the rank /profile would report to u now (lines 370-378)
ReportedRank(u) == rankOf(upsert_user_profile(users, u), u)

\* two users with the same total_points who would be told different ranks
TiedRanksApart ==
    \E u, v \in UserIds :
       /\ u /= v
       /\ users[u].total_points = users[v].total_points
       /\ ReportedRank(u) /= ReportedRank(v)

\* C18: two users with equal total_points can report different ranks: a
\* state of the user store is reached in which the ranks reported to two
\* users whose total_points are equal differ.
C18_TiedRanksCanDiffer == <>TiedRanksApart

\* C18, as the code has it: users with equal total_points are always
\* reported the same rank.
C18_TiedRanksEqual ==
    \A u, v \in UserIds :
       users[u].total_points = users[v].total_points
          => ReportedRank(u) = ReportedRank(v)

\* both users have 10 points and one of them has just asked for a profile
C18_Witness ==
    /\ \A u \in UserIds : users[u].total_points = POINTS
    /\ answered = ProfileReply(1)

\* the cells of session gid not matched yet
Unmatched(gid) == {i \in DOMAIN games[gid].grid : ~games[gid].grid[i].matched}

\* C19: every session can still be completed by play: no reachable state
\* has an unmatched cell that no sequence of reveals can ever match, such
\* as the filler left as the only unmatched cell (a reveal of it waits for
\* a second cell, and no other cell can be revealed any more).
C19_NoStrandedCell ==
    \A gid \in DOMAIN games : Cardinality(Unmatched(gid)) /= 1

\* the sum of f over the set S of arguments
RECURSIVE SumOver(_, _)
SumOver(f, S) ==
    IF S = {} THEN 0
    ELSE LET x == CHOOSE y \in S : TRUE IN f[x] + SumOver(f, S \ {x})

\* the matched cells of session gid that do not hold the filler
MatchedPairsCells(gid) ==
    {i \in DOMAIN games[gid].grid :
        games[gid].grid[i].matched /\ games[gid].grid[i].emoji /= FILLER}

\* C20: at rest, every session has score = 10 * pairs_found, pairs_found =
\* (number of matched cells other than the filler) / 2, the players' scores
\* summing to score and the players' pairs_found summing to pairs_found.
C20_ScoreConsistent ==
    AtRest =>
       \A gid \in DOMAIN games :
          LET g == games[gid]
              P == DOMAIN g.players
          IN  /\ g.score = POINTS * g.pairs_found
              /\ 2 * g.pairs_found = Cardinality(MatchedPairsCells(gid))
              /\ SumOver([u \in P |-> g.players[u].score], P) = g.score
              /\ SumOver([u \in P |-> g.players[u].pairs_found], P) = g.pairs_found

\* at rest, a session of 20 points of which each of two players has made 10
C20_Witness ==
    /\ AtRest
    /\ \E gid \in DOMAIN games :
          /\ games[gid].score = 2 * POINTS
          /\ games[gid].pairs_found = 2
          /\ \A u \in UserIds :
                u \in DOMAIN games[gid].players /\ games[gid].players[u].score = POINTS

\* C21: a match is credited only to the user who made the second reveal,
\* whoever revealed the first cell of the pair: that user's per-session
\* counters grow by 10 and 1, and the per-session and lifetime score and
\* pairs_found of every other user are unchanged by that reveal.
C21_MatchCreditsActingUserOnly ==
    [][\A h \in Handlers, u \in UserIds, gid \in DOMAIN games :
          \A index \in Indexes(gid) :
             (/\ SecondReveal(gid, index)
              /\ EmojiAt(gid, games[gid].revealed[1]) = EmojiAt(gid, index)
              /\ Pick(h, u, gid, index))
                => (/\ PlayerScore(games'[gid].players, u)
                          = PlayerScore(games[gid].players, u) + POINTS
                    /\ PlayerPairs(games'[gid].players, u)
                          = PlayerPairs(games[gid].players, u) + 1
                    /\ \A v \in UserIds \ {u} :
                          /\ (v \in DOMAIN games'[gid].players)
                                <=> (v \in DOMAIN games[gid].players)
                          /\ PlayerScore(games'[gid].players, v)
                                = PlayerScore(games[gid].players, v)
                          /\ PlayerPairs(games'[gid].players, v)
                                = PlayerPairs(games[gid].players, v)
                          /\ users'[v].total_points = users[v].total_points
                          /\ users'[v].pairs_found = users[v].pairs_found)]_vars

\* the first pair of a session has just been matched at time 0, when each
\* user can pass the cooldown gate once only: the two reveals were made by
\* the two users, and the one who made the second holds the 10 points
C21_Witness ==
    /\ answered = "Match"
    /\ now = 0
    /\ \A u \in UserIds : users[u].cooldown_until = COOLDOWN_SECONDS
    /\ \E gid \in DOMAIN games :
          /\ games[gid].pairs_found = 1
          /\ Len(summaries[gid]) = 0
          /\ \E u \in UserIds :
                /\ PlayerScore(games[gid].players, u) = POINTS
                /\ users[u].total_points = POINTS
                /\ \A v \in UserIds \ {u} :
                      /\ PlayerScore(games[gid].players, v) = 0
                      /\ users[v].total_points = 0

\* user u passes the cooldown gate in this step: a pick or an End of u that
\* is not ignored
PassesGate(u) ==
    \E h \in Handlers, gid \in DOMAIN games : Reveal(h, u, gid) \/ End(h, u, gid)

\* the time of u's latest attempt that passed the gate, None if there is
\* none: cooldown_until is written by a passing attempt only, which sets it
\* to its own time + COOLDOWN_SECONDS (both are part of C22 below)
LastPass(u) ==
    IF users[u].cooldown_until = 0 THEN None
    ELSE users[u].cooldown_until - COOLDOWN_SECONDS

\* C22: with a non-decreasing clock, any two attempts of one user that pass
\* the cooldown gate, whatever they are (pick or End) and however their
\* handlers interleave, have times at least 1 second apart: an attempt that
\* passes comes at least 1 second after the user's latest one that passed,
\* hence after all earlier ones.
C22_PassesOneSecondApart ==
    [][\A u \in UserIds :
          /\ now' >= now
          /\ IF PassesGate(u)
             THEN /\ LastPass(u) /= None => now - LastPass(u) >= 1
                  /\ users'[u].cooldown_until = now + COOLDOWN_SECONDS
             ELSE users'[u].cooldown_until = users[u].cooldown_until]_vars

\* one user has passed the gate at time 0 in one session and at time 1 in
\* another (a cell of each is revealed, and the other user has never passed
\* the gate), while a later click of that user is being ignored
C22_Witness ==
    /\ now = 1
    /\ answered = "RateLimited"
    /\ \E u \in UserIds :
          /\ users[u].cooldown_until = 1 + COOLDOWN_SECONDS
          /\ \A v \in UserIds \ {u} : ~users[v].exists
    /\ Cardinality(DOMAIN games) = 2
    /\ \A gid \in DOMAIN games : Len(games[gid].revealed) = 1
====
